---- MODULE Spec2Model ----
(***************************************************************************)
(* Request engine of the osu! API v2 client (src/client/mod.rs) and the   *)
(* lazily started ranking request builders (src/request/ranking.rs).      *)
(*                                                                         *)
(* One engine call is one run of OsuRef::send_request preceded by either   *)
(* OsuRef::raw (an API request, driven by a builder) or                    *)
(* OsuRef::request_token (a token request, driven by client construction   *)
(* or by the token refresh loop).                                          *)
(***************************************************************************)
EXTENDS Integers, Sequences, FiniteSets, TLC

\* ------------------------------------------------------------------ bounds
MaxRetries == 2
NumBuilders == 2
MaxTime == 2
MaxRenewals == 1
MaxPolls == 2
Capacity == 1
RefillRate == 1
MaxBodyLen == 3
MaxSpotlight == 2
MaxPage == 2
ExpiresIn == 2
MaxLoopTime == 3

\* ------------------------------------------------------------------ values
None == "None"
TOK == 0
\* OsuRef.timeout, in refill intervals of the rate limiter.
TimeoutTicks == 1
\* How long before the reported expiry the refresh loop wakes up.
Margin == 1
\* A refresh loop that sleeps for the whole reported lifetime.
SleepFor_whole(expires_in) == expires_in

\* The sleep of the refresh loop for a token of the given lifetime.
SleepFor(expires_in) == IF expires_in > Margin THEN expires_in - Margin ELSE 0
Builders == 1..NumBuilders
Calls == {TOK} \cup Builders

OK == 200
CREATED == 201
BAD_REQUEST == 400
NOT_FOUND == 404
TOO_MANY_REQUESTS == 429
SERVICE_UNAVAILABLE == 503
Statuses == {OK, CREATED, BAD_REQUEST, NOT_FOUND, TOO_MANY_REQUESTS, SERVICE_UNAVAILABLE}

\* A body is a sequence of byte groups.  "{" and "}" are the braces of a JSON
\* object, "E" stands for the member "error":"invalid_scope", "I" for the
\* member "id":5, "T" for the members of a token response with a refresh
\* token, "A" for those of a token response without one, "n" for text that is
\* no JSON, and "FF" for a byte that is not valid UTF-8.
ByteGroups == {"{", "}", "E", "I", "T", "A", "n", "FF"}

RECURSIVE SeqsUpTo(_, _)
SeqsUpTo(S, n) ==
    IF n = 0 THEN {<<>>}
    ELSE LET shorter == SeqsUpTo(S, n - 1)
         IN  shorter \cup {Append(s, x) : s \in {t \in shorter : Len(t) = n - 1}, x \in S}

Bodies == SeqsUpTo(ByteGroups, MaxBodyLen)

\* String::from_utf8_lossy: every invalid byte becomes U+FFFD, the rest is kept.
from_utf8_lossy(bytes) ==
    [i \in 1..Len(bytes) |-> IF bytes[i] = "FF" THEN "U+FFFD" ELSE bytes[i]]

\* The members between the braces of a JSON object, or "invalid".
Members(bytes) ==
    IF /\ Len(bytes) >= 2
       /\ bytes[1] = "{"
       /\ bytes[Len(bytes)] = "}"
       /\ \A i \in 2..(Len(bytes) - 1) : bytes[i] \in {"E", "I", "T", "A"}
       /\ \A i, j \in 2..(Len(bytes) - 1) : bytes[i] = bytes[j] => i = j
    THEN {bytes[i] : i \in 2..(Len(bytes) - 1)}
    ELSE {"invalid"}

IsJsonObject(bytes) == Members(bytes) # {"invalid"}

\* serde_json::from_slice::<ApiError>: an object whose "error" member is optional.
ParseApiError(bytes) ==
    IF IsJsonObject(bytes)
    THEN [ok |-> TRUE, error |-> IF "E" \in Members(bytes) THEN "invalid_scope" ELSE None]
    ELSE [ok |-> FALSE, error |-> None]

\* serde_json::from_slice::<T> for a target shape {id: u32}.
ParseTarget(bytes) ==
    IF IsJsonObject(bytes) /\ "I" \in Members(bytes)
    THEN [ok |-> TRUE, id |-> "5"]
    ELSE [ok |-> FALSE, id |-> None]

\* ------------------------------------------------------------------ results
NoOutcome == [tag |-> None, status |-> 0, body |-> <<>>, payload |-> None]
Outcome(tag, status, body, payload) ==
    [tag |-> tag, status |-> status, body |-> body, payload |-> payload]

\* handle_status taking every 2xx status for a success.
handle_status_2xx(status, readOk, bytes) ==
    IF ~readOk THEN Outcome("ChunkingResponse", 0, <<>>, None)
    ELSE IF status >= 200 /\ status < 300 THEN Outcome("Ok", status, bytes, None)
    ELSE IF status = NOT_FOUND THEN Outcome("NotFound", 0, <<>>, None)
    ELSE IF status = SERVICE_UNAVAILABLE
         THEN Outcome("ServiceUnavailable", 0, from_utf8_lossy(bytes), None)
    ELSE LET body == from_utf8_lossy(bytes)
             source == ParseApiError(bytes)
         IN  IF source.ok
             THEN Outcome("Response", status, body, source.error)
             ELSE Outcome("Parsing", 0, body, "serde_json::Error")

\* handle_status matching the status before it reads the body.
handle_status_status_first(status, readOk, bytes) ==
    IF status = NOT_FOUND THEN Outcome("NotFound", 0, <<>>, None)
    ELSE IF ~readOk THEN Outcome("ChunkingResponse", 0, <<>>, None)
    ELSE IF status = OK THEN Outcome("Ok", status, bytes, None)
    ELSE IF status = SERVICE_UNAVAILABLE
         THEN Outcome("ServiceUnavailable", 0, from_utf8_lossy(bytes), None)
    ELSE LET body == from_utf8_lossy(bytes)
             source == ParseApiError(bytes)
         IN  IF source.ok
             THEN Outcome("Response", status, body, source.error)
             ELSE Outcome("Parsing", 0, body, "serde_json::Error")

\* OsuRef::handle_status: the body is read first, then the status decides.
handle_status(status, readOk, bytes) ==
    IF ~readOk THEN Outcome("ChunkingResponse", 0, <<>>, None)
    ELSE IF status = OK THEN Outcome("Ok", status, bytes, None)
    ELSE IF status = NOT_FOUND THEN Outcome("NotFound", 0, <<>>, None)
    ELSE IF status = SERVICE_UNAVAILABLE
         THEN Outcome("ServiceUnavailable", 0, from_utf8_lossy(bytes), None)
    ELSE LET body == from_utf8_lossy(bytes)
             source == ParseApiError(bytes)
         IN  IF source.ok
             THEN Outcome("Response", status, body, source.error)
             ELSE Outcome("Parsing", 0, body, "serde_json::Error")

\* parse_bytes returning the parse failure without the body.
parse_bytes_no_body(bytes) ==
    IF ParseTarget(bytes).ok
    THEN Outcome("Value", 0, <<>>, ParseTarget(bytes).id)
    ELSE Outcome("Parsing", 0, <<>>, "serde_json::Error")

\* parse_bytes::<T>: the typed result, or Parsing with the lossy body text.
parse_bytes(bytes) ==
    IF ParseTarget(bytes).ok
    THEN Outcome("Value", 0, <<>>, ParseTarget(bytes).id)
    ELSE Outcome("Parsing", 0, from_utf8_lossy(bytes), "serde_json::Error")

\* parse_bytes::<TokenResponse>: "T" carries access and refresh token, "A" the
\* access token alone, with a lifetime one interval longer; n is the number
\* of the token the provider issued.
ParseToken(bytes, n) ==
    IF IsJsonObject(bytes) /\ Members(bytes) \cap {"T", "A"} # {}
    THEN [ok |-> TRUE, access_token |-> n,
          refresh_token |-> IF "T" \in Members(bytes) THEN <<n>> ELSE <<>>,
          expires_in |-> IF "T" \in Members(bytes) THEN ExpiresIn ELSE ExpiresIn + 1]
    ELSE [ok |-> FALSE, access_token |-> 0, refresh_token |-> <<>>, expires_in |-> 0]

\* The body of a token request after client_id and client_secret; a field
\* that is not pushed is <<>>.
NoBody ==
    [grant_type |-> None, scope |-> <<>>, refresh_token |-> <<>>,
     redirect_uri |-> <<>>, code |-> <<>>]

\* request_token with the grant type fixed to authorization_code for a user.
Body_code_only(kind, stored) ==
    IF kind = "Client"
    THEN [NoBody EXCEPT !.grant_type = "client_credentials", !.scope = <<"scope">>]
    ELSE [NoBody EXCEPT !.grant_type = "authorization_code",
                        !.redirect_uri = <<"auth.redirect_uri">>,
                        !.code = <<"auth.code">>,
                        !.scope = <<"identify public">>]

\* OsuRef::request_token, the match on auth_kind and on the stored refresh
\* token: the fields pushed into the body.
Body(kind, stored) ==
    IF kind = "Client"
    THEN [NoBody EXCEPT !.grant_type = "client_credentials", !.scope = <<"scope">>]
    ELSE IF stored # <<>>
         THEN [NoBody EXCEPT !.grant_type = "refresh_token", !.refresh_token = stored]
         ELSE [NoBody EXCEPT !.grant_type = "authorization_code",
                             !.redirect_uri = <<"auth.redirect_uri">>,
                             !.code = <<"auth.code">>,
                             !.scope = <<"identify public">>]

\* ------------------------------------------------------------------ state
VARIABLES
    retries,      \* OsuRef.retries, fixed at construction
    auth_kind,    \* OsuRef.auth_kind: "Client" or "User"
    phase,        \* the client: "building", "ready", "failed", "dropped"
    access,       \* Token.access: <<>> (None) or <<"Bearer", n>>
    refresh,      \* Token.refresh: <<>> (None) or <<n>>
    readers,      \* read guards held on OsuRef.token
    bucket,       \* units available in the rate limiter
    now,          \* clock ticks elapsed
    granted,      \* units granted by acquire_one so far
    netSends,     \* network send attempts made so far
    issued,       \* tokens the provider has issued so far
    pc,           \* position of each engine call
    attempt,      \* send_request's attempt counter
    sends,        \* network sends made by the current call
    acquired,     \* units acquired by the current call
    log,          \* what the transport answered to each attempt of the call
    delivered,    \* the response the transport handed over, if any
    ret,          \* what send_request returned
    outcome,      \* what the call returned to its caller
    header,       \* the authorization header of the built API request
    grant,        \* grant_type of the built token request
    fut,          \* builder: "absent", "None" (not started) or "Some"
    spotlight,    \* builder: GetChartRankings.spotlight
    query,        \* builder: query of the request start() built
    kind,         \* builder: which ranking the builder asks for
    mode,         \* builder: mode
    page,         \* builder: page
    country,      \* builder: country
    variant,      \* builder: variant
    given,        \* the last argument the caller gave to each builder method
    started,      \* builder: times start() ran
    polls,        \* builder: times it was polled
    loopPc,       \* refresh loop: "off", "sleeping", "renewing", "stopped"
    renewals,     \* renewals the refresh loop has begun
    failures,     \* refresh loop: renewals that failed since the last success
    life_left,    \* refresh loop's clock: intervals until the stored token expires
    sleep_left,   \* refresh loop's clock: intervals until the sleep is over
    expire,       \* refresh loop: expires_in of the stored token
    waited,       \* refill intervals each call has been waiting in acquire_one
    tokenBody,    \* the body of the built token request
    token_loop_tx, \* Osu.token_loop_tx: "None" or "Some"
    signals,      \* cancellation messages sent to the refresh loop
    req,          \* the request each call has built (HyperRequest<BodyBytes>)
    wire,         \* the requests the attempts of each call put on the wire
    clone,        \* the clone of the request the transport holds, as it left it
    chunked,      \* hyper::body::to_bytes of the response: None, "ok" or "error"
    writer        \* a write of OsuRef.token: "none" or "waiting" for the readers

config == <<retries, auth_kind>>
tokenVars == <<access, refresh>>
limiter == <<bucket, now, granted, waited>>
callVars == <<pc, attempt, sends, acquired, log, delivered, ret, outcome, header, grant>>
fields == <<spotlight, page, country, variant>>
builderVars == <<fut, fields, kind, mode, given, query, started, polls>>
loopVars == <<loopPc, renewals, failures, life_left, sleep_left, expire>>
teardown == <<token_loop_tx, signals>>
transport == <<req, wire, clone>>
vars == <<config, phase, tokenVars, readers, limiter, netSends, issued, callVars,
          builderVars, loopVars, tokenBody, teardown, transport, chunked, writer>>

\* BodyBytes::from(body): the bytes of the serialised body, as one chunk; an
\* empty body gives no bytes.
BodyBytes(body) == IF body = NoBody THEN <<>> ELSE <<body>>

NoHeaders == [authorization |-> <<>>, content_length |-> 0, content_type |-> FALSE]
NoUri == [path |-> None, query |-> <<>>]
NoRequest == [method |-> None, uri |-> NoUri, headers |-> NoHeaders, body |-> <<>>]

\* OsuRef::request_token: the request that posts the body to the token endpoint.
TokenRequest(body) ==
    [method |-> "POST",
     uri |-> [path |-> "oauth/token", query |-> <<>>],
     headers |-> [authorization |-> <<>>,
                  content_length |-> Len(BodyBytes(body)),
                  content_type |-> TRUE],
     body |-> BodyBytes(body)]

\* OsuRef::raw: the request of an API call; it carries the token read under
\* the guard, and a content type only with a body.
ApiRequest(q, token) ==
    [method |-> "GET",
     uri |-> [path |-> "rankings", query |-> q],
     headers |-> [authorization |-> token,
                  content_length |-> Len(BodyBytes(NoBody)),
                  content_type |-> BodyBytes(NoBody) # <<>>],
     body |-> BodyBytes(NoBody)]

\* clone_req building the clone with a default body.
clone_req_default(r) ==
    [method |-> r.method, uri |-> r.uri, headers |-> r.headers, body |-> <<>>]

\* clone_req: a new request with the method, the uri, the headers and the
\* body of the given one.
clone_req(r) ==
    [method |-> r.method, uri |-> r.uri, headers |-> r.headers, body |-> r.body]

\* BodyBytes::poll_data: the bytes are taken out of the body, which is left
\* empty; an empty body ends the stream.
poll_data(bytes) ==
    IF bytes # <<>> THEN [data |-> bytes, rest |-> <<>>]
    ELSE [data |-> <<>>, rest |-> bytes]

NoResp == [status |-> 0, body |-> <<>>]
NoRet == [tag |-> None, resp |-> NoResp]

\* The responses the provider gives in the engine's runs: to a token request
\* a token with or without a refresh token, or an error; to an API request a
\* body of the target shape, a body of another shape, or an error whose body
\* is an error payload or is not.
EngineResponses(c) ==
    IF c = TOK
    THEN { [status |-> OK, body |-> <<"{", "T", "}">>],
           [status |-> OK, body |-> <<"{", "A", "}">>],
           [status |-> TOO_MANY_REQUESTS, body |-> <<"{", "E", "}">>] }
    ELSE { [status |-> OK, body |-> <<"{", "I", "}">>],
           [status |-> OK, body |-> <<"n">>],
           [status |-> TOO_MANY_REQUESTS, body |-> <<"{", "E", "}">>],
           [status |-> TOO_MANY_REQUESTS, body |-> <<"n">>] }

SpotlightIds == 1..MaxSpotlight
Pages == 1..MaxPage
Countries == {<<"U", "S">>, <<"D", "E">>}
Kinds == {"chart", "country", "performance", "score"}
Modes == {"OSU", "TKO", "CTB", "MNA"}

\* What the caller of a builder has asked for: nothing yet.
NoGiven == [spotlight |-> <<>>, page |-> <<>>, country |-> <<>>, variant |-> <<>>]

\* u32::to_string: the decimal digits of n.
Digits == <<"0", "1", "2", "3", "4", "5", "6", "7", "8", "9">>
RECURSIVE to_string(_)
to_string(n) ==
    IF n < 10 THEN <<Digits[n + 1]>>
    ELSE Append(to_string(n \div 10), Digits[(n % 10) + 1])

Init ==
    /\ retries \in 0..MaxRetries
    /\ auth_kind \in {"Client", "User"}
    /\ phase = "building"
    /\ access = <<>>
    /\ refresh = <<>>
    /\ readers = 0
    /\ bucket = Capacity
    /\ now = 0
    /\ granted = 0
    /\ netSends = 0
    /\ issued = 0
    /\ pc = [c \in Calls |-> IF c = TOK THEN "body" ELSE "idle"]
    /\ attempt = [c \in Calls |-> 0]
    /\ sends = [c \in Calls |-> 0]
    /\ acquired = [c \in Calls |-> 0]
    /\ log = [c \in Calls |-> <<>>]
    /\ delivered = [c \in Calls |-> NoResp]
    /\ ret = [c \in Calls |-> NoRet]
    /\ outcome = [c \in Calls |-> NoOutcome]
    /\ header = [c \in Calls |-> <<>>]
    /\ grant = [c \in Calls |-> None]
    /\ fut = [b \in Builders |-> "absent"]
    /\ spotlight = [b \in Builders |-> <<>>]
    /\ query = [b \in Builders |-> <<>>]
    /\ kind = [b \in Builders |-> None]
    /\ mode = [b \in Builders |-> None]
    /\ page = [b \in Builders |-> <<>>]
    /\ country = [b \in Builders |-> <<>>]
    /\ variant = [b \in Builders |-> <<>>]
    /\ given = [b \in Builders |-> NoGiven]
    /\ started = [b \in Builders |-> 0]
    /\ polls = [b \in Builders |-> 0]
    /\ loopPc = "off"
    /\ renewals = 0
    /\ failures = 0
    /\ life_left = 0
    /\ sleep_left = 0
    /\ expire = 0
    /\ waited = [c \in Calls |-> 0]
    /\ tokenBody = NoBody
    /\ token_loop_tx = "None"
    /\ signals = 0
    /\ req = [c \in Calls |-> NoRequest]
    /\ wire = [c \in Calls |-> <<>>]
    /\ clone = [c \in Calls |-> NoRequest]
    /\ chunked = [c \in Calls |-> None]
    /\ writer = "none"

Min(a, b) == IF a <= b THEN a ELSE b

\* ------------------------------------------------------------------ builders
\* new creating the computation at once instead of leaving it to the first poll.
new_eager(b, k, m) ==
    /\ fut' = [fut EXCEPT ![b] = "Some"]
    /\ kind' = [kind EXCEPT ![b] = k]
    /\ mode' = [mode EXCEPT ![b] = m]
    /\ spotlight' = [spotlight EXCEPT ![b] = <<>>]
    /\ page' = [page EXCEPT ![b] = <<>>]
    /\ country' = [country EXCEPT ![b] = <<>>]
    /\ variant' = [variant EXCEPT ![b] = <<>>]
    /\ started' = [started EXCEPT ![b] = @ + 1]
    /\ pc' = [pc EXCEPT ![b] = "raw"]
    /\ UNCHANGED query

\* Osu::chart_rankings, country_rankings, performance_rankings and
\* score_rankings -> new of the builder: nothing but the fields is set, the
\* mode is the one given and every parameter is None.
new(b, k, m) ==
    /\ fut' = [fut EXCEPT ![b] = "None"]
    /\ kind' = [kind EXCEPT ![b] = k]
    /\ mode' = [mode EXCEPT ![b] = m]
    /\ spotlight' = [spotlight EXCEPT ![b] = <<>>]
    /\ page' = [page EXCEPT ![b] = <<>>]
    /\ country' = [country EXCEPT ![b] = <<>>]
    /\ variant' = [variant EXCEPT ![b] = <<>>]
    /\ UNCHANGED <<pc, started, query>>

\* A builder of one of the rankings is created for a mode.  Builders are
\* numbered in the order of their creation.
NewRanking(b, k, m) ==
    /\ phase = "ready"
    /\ fut[b] = "absent"
    /\ \A a \in Builders : a < b => fut[a] # "absent"
    /\ new(b, k, m)
    /\ UNCHANGED <<config, transport, chunked, writer, teardown, tokenBody, phase, tokenVars, readers, limiter, netSends, issued,
                   attempt, sends, acquired, log, delivered, ret, outcome, header, grant,
                   given, polls, loopVars>>

\* Osu::chart_rankings(GameMode::OSU).
NewBuilder(b) == NewRanking(b, "chart", "OSU")

\* GetChartRankings::spotlight: replaces the one field and returns the builder.
Spotlight(b, id) ==
    /\ fut[b] = "None"
    /\ kind[b] = "chart"
    /\ spotlight' = [spotlight EXCEPT ![b] = <<id>>]
    /\ given' = [given EXCEPT ![b].spotlight = <<id>>]
    /\ UNCHANGED <<config, transport, chunked, writer, teardown, tokenBody, phase, tokenVars, readers, limiter, netSends, issued, callVars,
                   fut, page, country, variant, kind, mode, query, started, polls, loopVars>>

\* page clearing the other parameters as it sets the page.
Page_reset(b, n) ==
    /\ fut[b] = "None"
    /\ kind[b] \in {"country", "performance", "score"}
    /\ page' = [page EXCEPT ![b] = <<n>>]
    /\ country' = [country EXCEPT ![b] = <<>>]
    /\ given' = [given EXCEPT ![b].page = <<n>>]
    /\ UNCHANGED <<config, transport, chunked, writer, teardown, tokenBody, phase, tokenVars, readers, limiter, netSends, issued, callVars,
                   fut, spotlight, variant, kind, mode, query, started, polls, loopVars>>

\* GetCountryRankings::page, GetPerformanceRankings::page and
\* GetScoreRankings::page: replaces the one field and returns the builder.
Page(b, n) ==
    /\ fut[b] = "None"
    /\ kind[b] \in {"country", "performance", "score"}
    /\ page' = [page EXCEPT ![b] = <<n>>]
    /\ given' = [given EXCEPT ![b].page = <<n>>]
    /\ UNCHANGED <<config, transport, chunked, writer, teardown, tokenBody, phase, tokenVars, readers, limiter, netSends, issued, callVars,
                   fut, spotlight, country, variant, kind, mode, query, started, polls, loopVars>>

\* GetPerformanceRankings::country: replaces the one field and returns the
\* builder.
Country(b, code) ==
    /\ fut[b] = "None"
    /\ kind[b] = "performance"
    /\ country' = [country EXCEPT ![b] = <<code>>]
    /\ given' = [given EXCEPT ![b].country = <<code>>]
    /\ UNCHANGED <<config, transport, chunked, writer, teardown, tokenBody, phase, tokenVars, readers, limiter, netSends, issued, callVars,
                   fut, spotlight, page, variant, kind, mode, query, started, polls, loopVars>>

\* variant_4k / variant_7k setting the variant whatever the mode is.
Variant_any_mode(b, v) ==
    /\ fut[b] = "None"
    /\ kind[b] = "performance"
    /\ variant' = [variant EXCEPT ![b] = <<v>>]
    /\ given' = [given EXCEPT ![b].variant = <<v>>]
    /\ UNCHANGED <<config, transport, chunked, writer, teardown, tokenBody, phase, tokenVars, readers, limiter, netSends, issued, callVars,
                   fut, spotlight, page, country, kind, mode, query, started, polls, loopVars>>

\* GetPerformanceRankings::variant_4k and variant_7k: replace the variant by
\* "4k" resp. "7k" if the mode is mania, and return the builder.
Variant(b, v) ==
    /\ fut[b] = "None"
    /\ kind[b] = "performance"
    /\ variant' = IF mode[b] = "MNA" THEN [variant EXCEPT ![b] = <<v>>] ELSE variant
    /\ given' = [given EXCEPT ![b].variant = <<v>>]
    /\ UNCHANGED <<config, transport, chunked, writer, teardown, tokenBody, phase, tokenVars, readers, limiter, netSends, issued, callVars,
                   fut, spotlight, page, country, kind, mode, query, started, polls, loopVars>>

variant_4k(b) == Variant(b, <<"4", "k">>)
variant_7k(b) == Variant(b, <<"7", "k">>)

\* Query::push for a parameter that is set; nothing for one that is None.
Param(key, opt) == IF opt # <<>> THEN <<<<key, opt[1]>>>> ELSE <<>>

\* The spotlight and the page as start() writes them.
Str(opt) == IF opt # <<>> THEN <<to_string(opt[1])>> ELSE <<>>

\* start() pushing a key for every parameter, set or not.
Query_all_keys(k, sp, co, va, pg) ==
    IF k = "chart" THEN <<<<"spotlight", IF sp # <<>> THEN to_string(sp[1]) ELSE <<>>>>>>
    ELSE IF k = "performance"
         THEN <<<<"country", IF co # <<>> THEN co[1] ELSE <<>>>>,
                <<"variant", IF va # <<>> THEN va[1] ELSE <<>>>>,
                <<"cursor[page]", IF pg # <<>> THEN to_string(pg[1]) ELSE <<>>>>>>
    ELSE <<<<"cursor[page]", IF pg # <<>> THEN to_string(pg[1]) ELSE <<>>>>>>

\* The query start() builds: of a chart ranking the spotlight, of a
\* performance ranking the country, the variant and the page in this order,
\* of a country and of a score ranking the page.
Query(k, sp, co, va, pg) ==
    IF k = "chart" THEN Param("spotlight", Str(sp))
    ELSE IF k = "performance"
         THEN Param("country", co) \o Param("variant", va) \o Param("cursor[page]", Str(pg))
    ELSE Param("cursor[page]", Str(pg))

\* start of the four ranking builders: builds the query and the request, and
\* creates the computation OsuRef::request(req), which has not run yet.  The
\* performance builder's country is taken out of the builder.
start(b) ==
    /\ started' = [started EXCEPT ![b] = @ + 1]
    /\ query' = [query EXCEPT ![b] =
                     Query(kind[b], spotlight[b], country[b], variant[b], page[b])]
    /\ country' = IF kind[b] = "performance" THEN [country EXCEPT ![b] = <<>>] ELSE country
    /\ pc' = [pc EXCEPT ![b] = "raw"]

\* poll that calls start() on every poll.
Poll_restart(b) ==
    /\ fut[b] \in {"None", "Some"}
    /\ pc[b] # "done"
    /\ polls[b] < MaxPolls
    /\ polls' = [polls EXCEPT ![b] = @ + 1]
    /\ start(b)
    /\ fut' = [fut EXCEPT ![b] = "Some"]
    /\ UNCHANGED <<config, transport, chunked, writer, teardown, tokenBody, phase, tokenVars, readers, limiter, netSends, issued,
                   attempt, sends, acquired, log, delivered, ret, outcome, header, grant,
                   spotlight, page, variant, kind, mode, given, loopVars>>

\* poll_req!: the first poll stores the computation start() returns, every
\* later poll drives the stored one.
Poll(b) ==
    /\ fut[b] \in {"None", "Some"}
    /\ pc[b] # "done"
    /\ polls[b] < MaxPolls
    /\ polls' = [polls EXCEPT ![b] = @ + 1]
    /\ IF fut[b] = "None"
       THEN /\ start(b)
            /\ fut' = [fut EXCEPT ![b] = "Some"]
       ELSE UNCHANGED <<started, query, pc, fut, country>>
    /\ UNCHANGED <<config, transport, chunked, writer, teardown, tokenBody, phase, tokenVars, readers, limiter, netSends, issued,
                   attempt, sends, acquired, log, delivered, ret, outcome, header, grant,
                   spotlight, page, variant, kind, mode, given, loopVars>>

\* ------------------------------------------------------------------ engine
\* raw looking at the refresh token where it should look at the access token.
RawReadToken_refresh(b) ==
    /\ pc[b] = "raw"
    /\ writer = "none"
    /\ IF refresh # <<>>
       THEN /\ header' = [header EXCEPT ![b] = access]
            /\ req' = [req EXCEPT ![b] = ApiRequest(query[b], access)]
            /\ readers' = readers + 1
            /\ pc' = [pc EXCEPT ![b] = "acquire"]
            /\ UNCHANGED outcome
       ELSE /\ outcome' = [outcome EXCEPT ![b] = Outcome("NoToken", 0, <<>>, None)]
            /\ pc' = [pc EXCEPT ![b] = "done"]
            /\ UNCHANGED <<header, readers, req>>
    /\ UNCHANGED <<config, wire, clone, chunked, writer, teardown, tokenBody, phase, tokenVars, limiter, netSends, issued,
                   attempt, sends, acquired, log, delivered, ret, grant,
                   builderVars, loopVars>>

\* raw copying the token and letting the read guard go before send_request.
RawReadToken_unguarded(b) ==
    /\ pc[b] = "raw"
    /\ writer = "none"
    /\ IF access # <<>>
       THEN /\ header' = [header EXCEPT ![b] = access]
            /\ req' = [req EXCEPT ![b] = ApiRequest(query[b], access)]
            /\ pc' = [pc EXCEPT ![b] = "acquire"]
            /\ UNCHANGED outcome
       ELSE /\ outcome' = [outcome EXCEPT ![b] = Outcome("NoToken", 0, <<>>, None)]
            /\ pc' = [pc EXCEPT ![b] = "done"]
            /\ UNCHANGED <<header, req>>
    /\ UNCHANGED <<config, wire, clone, chunked, writer, teardown, tokenBody, phase, tokenVars, readers, limiter, netSends, issued,
                   attempt, sends, acquired, log, delivered, ret, grant,
                   builderVars, loopVars>>

\* raw going on to send_request without a token.
RawReadToken_anyway(b) ==
    /\ pc[b] = "raw"
    /\ writer = "none"
    /\ header' = [header EXCEPT ![b] = access]
    /\ req' = [req EXCEPT ![b] = ApiRequest(query[b], access)]
    /\ readers' = readers + 1
    /\ pc' = [pc EXCEPT ![b] = "acquire"]
    /\ UNCHANGED <<config, wire, clone, chunked, writer, teardown, tokenBody, phase, tokenVars, limiter, netSends, issued,
                   attempt, sends, acquired, log, delivered, ret, outcome, grant,
                   builderVars, loopVars>>

\* OsuRef::raw: reads the access token under a read guard that lives until
\* send_request has returned; without a token the call ends with NoToken.
RawReadToken(b) ==
    /\ pc[b] = "raw"
    /\ writer = "none"
    /\ IF access # <<>>
       THEN /\ header' = [header EXCEPT ![b] = access]
            /\ req' = [req EXCEPT ![b] = ApiRequest(query[b], access)]
            /\ readers' = readers + 1
            /\ pc' = [pc EXCEPT ![b] = "acquire"]
            /\ UNCHANGED outcome
       ELSE /\ outcome' = [outcome EXCEPT ![b] = Outcome("NoToken", 0, <<>>, None)]
            /\ pc' = [pc EXCEPT ![b] = "done"]
            /\ UNCHANGED <<header, readers, req>>
    /\ UNCHANGED <<config, wire, clone, chunked, writer, teardown, tokenBody, phase, tokenVars, limiter, netSends, issued,
                   attempt, sends, acquired, log, delivered, ret, grant,
                   builderVars, loopVars>>

\* OsuRef::request_token, up to the built request: the grant type follows
\* from the authorization kind and the stored refresh token.
TokenBody ==
    /\ pc[TOK] = "body"
    /\ tokenBody' = Body(auth_kind, refresh)
    /\ grant' = [grant EXCEPT ![TOK] = Body(auth_kind, refresh).grant_type]
    /\ req' = [req EXCEPT ![TOK] = TokenRequest(Body(auth_kind, refresh))]
    /\ pc' = [pc EXCEPT ![TOK] = "acquire"]
    /\ UNCHANGED <<config, wire, clone, chunked, writer, teardown, phase, tokenVars, readers, limiter, netSends, issued,
                   attempt, sends, acquired, log, delivered, ret, outcome, header,
                   builderVars, loopVars>>

\* acquire_one returning without a unit being available.
AcquireOne_nowait(c) ==
    /\ pc[c] = "acquire"
    /\ bucket' = IF bucket > 0 THEN bucket - 1 ELSE 0
    /\ granted' = granted + 1
    /\ acquired' = [acquired EXCEPT ![c] = @ + 1]
    /\ attempt' = [attempt EXCEPT ![c] = 0]
    /\ waited' = [waited EXCEPT ![c] = 0]
    /\ pc' = [pc EXCEPT ![c] = "loop"]
    /\ UNCHANGED <<config, transport, chunked, writer, teardown, tokenBody, phase, tokenVars, readers, now,
                   netSends, issued, sends, log, delivered, ret, outcome, header, grant,
                   builderVars, loopVars>>

\* send_request, first line: waits for one unit of the rate limiter.
AcquireOne(c) ==
    /\ pc[c] = "acquire"
    /\ bucket > 0
    /\ bucket' = bucket - 1
    /\ granted' = granted + 1
    /\ acquired' = [acquired EXCEPT ![c] = @ + 1]
    /\ attempt' = [attempt EXCEPT ![c] = 0]
    /\ waited' = [waited EXCEPT ![c] = 0]
    /\ pc' = [pc EXCEPT ![c] = "loop"]
    /\ UNCHANGED <<config, transport, chunked, writer, teardown, tokenBody, phase, tokenVars, readers, now,
                   netSends, issued, sends, log, delivered, ret, outcome, header, grant,
                   builderVars, loopVars>>

\* send_request, loop head: clones the request and hands it to the transport.
Send(c) ==
    /\ pc[c] = "loop"
    /\ sends' = [sends EXCEPT ![c] = @ + 1]
    /\ netSends' = netSends + 1
    /\ wire' = [wire EXCEPT ![c] = Append(@, clone_req(req[c]))]
    /\ clone' = [clone EXCEPT ![c] =
                     [clone_req(req[c]) EXCEPT !.body = poll_data(@).rest]]
    /\ pc' = [pc EXCEPT ![c] = "inflight"]
    /\ UNCHANGED <<config, req, chunked, writer, teardown, tokenBody, phase, tokenVars, readers, limiter, issued,
                   attempt, acquired, log, delivered, ret, outcome, header, grant,
                   builderVars, loopVars>>

\* The read guard of OsuRef::raw is dropped when send_request returns.
Release(c) == IF c \in Builders THEN readers - 1 ELSE readers

\* send_request checking for exhausted retries before it looks at the result.
Complete_exhausted(c, r) ==
    /\ pc[c] = "inflight"
    /\ log' = [log EXCEPT ![c] = Append(@, "ok")]
    /\ delivered' = [delivered EXCEPT ![c] = r]
    /\ issued' = IF c = TOK /\ ParseToken(r.body, 0).ok /\ r.status = OK
                 THEN issued + 1 ELSE issued
    /\ readers' = Release(c)
    /\ IF attempt[c] < retries
       THEN /\ ret' = [ret EXCEPT ![c] = [tag |-> "Ok", resp |-> r]]
            /\ pc' = [pc EXCEPT ![c] = "status"]
            /\ UNCHANGED outcome
       ELSE /\ ret' = [ret EXCEPT ![c] = [tag |-> "RequestTimeout", resp |-> NoResp]]
            /\ outcome' = [outcome EXCEPT ![c] = Outcome("RequestTimeout", 0, <<>>, None)]
            /\ pc' = [pc EXCEPT ![c] = "done"]
    /\ UNCHANGED <<config, transport, chunked, writer, teardown, tokenBody, phase, tokenVars, limiter, netSends,
                   attempt, sends, acquired, header, grant,
                   builderVars, loopVars>>

\* send_request treating a 429 response like a timed out attempt.
Complete_retry_429(c, r) ==
    /\ pc[c] = "inflight"
    /\ log' = [log EXCEPT ![c] = Append(@, "ok")]
    /\ delivered' = [delivered EXCEPT ![c] = r]
    /\ issued' = IF c = TOK /\ ParseToken(r.body, 0).ok /\ r.status = OK
                 THEN issued + 1 ELSE issued
    /\ IF r.status = TOO_MANY_REQUESTS /\ attempt[c] < retries
       THEN /\ attempt' = [attempt EXCEPT ![c] = @ + 1]
            /\ pc' = [pc EXCEPT ![c] = "loop"]
            /\ UNCHANGED <<ret, readers>>
       ELSE /\ ret' = [ret EXCEPT ![c] = [tag |-> "Ok", resp |-> r]]
            /\ readers' = Release(c)
            /\ pc' = [pc EXCEPT ![c] = "status"]
            /\ UNCHANGED attempt
    /\ UNCHANGED <<config, transport, chunked, writer, teardown, tokenBody, phase, tokenVars, limiter, netSends,
                   sends, acquired, outcome, header, grant,
                   builderVars, loopVars>>

\* send_request, Ok(res) with res = Ok(response): the response is returned.
Complete(c, r) ==
    /\ pc[c] = "inflight"
    /\ log' = [log EXCEPT ![c] = Append(@, "ok")]
    /\ delivered' = [delivered EXCEPT ![c] = r]
    /\ ret' = [ret EXCEPT ![c] = [tag |-> "Ok", resp |-> r]]
    /\ issued' = IF c = TOK /\ ParseToken(r.body, 0).ok /\ r.status = OK
                 THEN issued + 1 ELSE issued
    /\ readers' = Release(c)
    /\ pc' = [pc EXCEPT ![c] = "status"]
    /\ UNCHANGED <<config, transport, chunked, writer, teardown, tokenBody, phase, tokenVars, limiter, netSends,
                   attempt, sends, acquired, outcome, header, grant,
                   builderVars, loopVars>>

\* send_request retrying a transport failure as if it were a timeout.
Fail_retried(c) ==
    /\ pc[c] = "inflight"
    /\ log' = [log EXCEPT ![c] = Append(@, "error")]
    /\ IF attempt[c] < retries
       THEN /\ attempt' = [attempt EXCEPT ![c] = @ + 1]
            /\ pc' = [pc EXCEPT ![c] = "loop"]
            /\ UNCHANGED <<ret, outcome, readers>>
       ELSE /\ ret' = [ret EXCEPT ![c] = [tag |-> "Request", resp |-> NoResp]]
            /\ outcome' = [outcome EXCEPT ![c] = Outcome("Request", 0, <<>>, None)]
            /\ readers' = Release(c)
            /\ pc' = [pc EXCEPT ![c] = "done"]
            /\ UNCHANGED attempt
    /\ UNCHANGED <<config, transport, chunked, writer, teardown, tokenBody, phase, tokenVars, limiter, netSends, issued,
                   sends, acquired, delivered, header, grant,
                   builderVars, loopVars>>

\* send_request, Ok(res) with res = Err(source): a transport failure that is
\* no timeout ends the call with OsuError::Request.
Fail(c) ==
    /\ pc[c] = "inflight"
    /\ log' = [log EXCEPT ![c] = Append(@, "error")]
    /\ ret' = [ret EXCEPT ![c] = [tag |-> "Request", resp |-> NoResp]]
    /\ outcome' = [outcome EXCEPT ![c] = Outcome("Request", 0, <<>>, None)]
    /\ readers' = Release(c)
    /\ pc' = [pc EXCEPT ![c] = "done"]
    /\ UNCHANGED <<config, transport, chunked, writer, teardown, tokenBody, phase, tokenVars, limiter, netSends, issued,
                   attempt, sends, acquired, delivered, header, grant,
                   builderVars, loopVars>>

\* send_request retrying while attempt <= retries: one attempt too many.
Timeout_off_by_one(c) ==
    /\ pc[c] = "inflight"
    /\ log' = [log EXCEPT ![c] = Append(@, "timeout")]
    /\ IF attempt[c] <= retries
       THEN /\ attempt' = [attempt EXCEPT ![c] = @ + 1]
            /\ pc' = [pc EXCEPT ![c] = "loop"]
            /\ UNCHANGED <<ret, outcome, readers>>
       ELSE /\ ret' = [ret EXCEPT ![c] = [tag |-> "RequestTimeout", resp |-> NoResp]]
            /\ outcome' = [outcome EXCEPT ![c] = Outcome("RequestTimeout", 0, <<>>, None)]
            /\ readers' = Release(c)
            /\ pc' = [pc EXCEPT ![c] = "done"]
            /\ UNCHANGED attempt
    /\ UNCHANGED <<config, transport, chunked, writer, teardown, tokenBody, phase, tokenVars, limiter, netSends, issued,
                   sends, acquired, delivered, header, grant,
                   builderVars, loopVars>>

\* send_request going back to acquire_one on every retry.
Timeout_reacquire(c) ==
    /\ pc[c] = "inflight"
    /\ log' = [log EXCEPT ![c] = Append(@, "timeout")]
    /\ IF attempt[c] < retries
       THEN /\ attempt' = [attempt EXCEPT ![c] = @ + 1]
            /\ pc' = [pc EXCEPT ![c] = "acquire"]
            /\ UNCHANGED <<ret, outcome, readers>>
       ELSE /\ ret' = [ret EXCEPT ![c] = [tag |-> "RequestTimeout", resp |-> NoResp]]
            /\ outcome' = [outcome EXCEPT ![c] = Outcome("RequestTimeout", 0, <<>>, None)]
            /\ readers' = Release(c)
            /\ pc' = [pc EXCEPT ![c] = "done"]
            /\ UNCHANGED attempt
    /\ UNCHANGED <<config, transport, chunked, writer, teardown, tokenBody, phase, tokenVars, limiter, netSends, issued,
                   sends, acquired, delivered, header, grant,
                   builderVars, loopVars>>

\* send_request awaiting the transport again, without a timeout, once the
\* retries are used up.
Timeout_hang(c) ==
    /\ pc[c] = "inflight"
    /\ log' = [log EXCEPT ![c] = Append(@, "timeout")]
    /\ IF attempt[c] < retries
       THEN /\ attempt' = [attempt EXCEPT ![c] = @ + 1]
            /\ pc' = [pc EXCEPT ![c] = "loop"]
       ELSE /\ pc' = [pc EXCEPT ![c] = "hung"]
            /\ UNCHANGED attempt
    /\ UNCHANGED <<config, transport, chunked, writer, teardown, tokenBody, phase, tokenVars, readers, limiter, netSends, issued,
                   sends, acquired, delivered, ret, outcome, header, grant,
                   builderVars, loopVars>>

\* send_request, Err(_): the attempt timed out; retried while attempt < retries.
Timeout(c) ==
    /\ pc[c] = "inflight"
    /\ log' = [log EXCEPT ![c] = Append(@, "timeout")]
    /\ IF attempt[c] < retries
       THEN /\ attempt' = [attempt EXCEPT ![c] = @ + 1]
            /\ pc' = [pc EXCEPT ![c] = "loop"]
            /\ UNCHANGED <<ret, outcome, readers>>
       ELSE /\ ret' = [ret EXCEPT ![c] = [tag |-> "RequestTimeout", resp |-> NoResp]]
            /\ outcome' = [outcome EXCEPT ![c] = Outcome("RequestTimeout", 0, <<>>, None)]
            /\ readers' = Release(c)
            /\ pc' = [pc EXCEPT ![c] = "done"]
            /\ UNCHANGED attempt
    /\ UNCHANGED <<config, transport, chunked, writer, teardown, tokenBody, phase, tokenVars, limiter, netSends, issued,
                   sends, acquired, delivered, header, grant,
                   builderVars, loopVars>>

\* hyper::body::to_bytes in handle_status: the body arrives whole or the
\* read fails.
to_bytes(readOk) == IF readOk THEN "ok" ELSE "error"

\* OsuRef::request: handle_status, then parse_bytes of a success body.
request(resp, readOk) ==
    LET h == handle_status(resp.status, readOk, resp.body)
    IN  IF h.tag = "Ok" THEN parse_bytes(h.body) ELSE h

\* OsuRef::request_token: handle_status, then parse_bytes::<TokenResponse>.
request_token(resp, readOk, n) ==
    LET h == handle_status(resp.status, readOk, resp.body)
    IN  IF h.tag # "Ok" THEN h
        ELSE IF ParseToken(h.body, n).ok THEN Outcome("Value", 0, <<>>, "TokenResponse")
        ELSE Outcome("Parsing", 0, from_utf8_lossy(h.body), "serde_json::Error")

\* The response is classified and the call returns to its caller.
HandleStatus(c, readOk) ==
    /\ pc[c] = "status"
    /\ outcome' = [outcome EXCEPT ![c] =
                       IF c = TOK THEN request_token(ret[c].resp, readOk, issued)
                       ELSE request(ret[c].resp, readOk)]
    /\ chunked' = [chunked EXCEPT ![c] = to_bytes(readOk)]
    /\ pc' = [pc EXCEPT ![c] = "done"]
    /\ UNCHANGED <<config, transport, writer, teardown, tokenBody, phase, tokenVars, readers, limiter, netSends, issued,
                   attempt, sends, acquired, log, delivered, ret, header, grant,
                   builderVars, loopVars>>

\* OsuRef::request_raw: handle_status alone, the bytes are returned as they are.
RequestRaw(c, readOk) ==
    /\ pc[c] = "status"
    /\ c \in Builders
    /\ outcome' = [outcome EXCEPT ![c] = handle_status(ret[c].resp.status, readOk, ret[c].resp.body)]
    /\ chunked' = [chunked EXCEPT ![c] = to_bytes(readOk)]
    /\ pc' = [pc EXCEPT ![c] = "done"]
    /\ UNCHANGED <<config, transport, writer, teardown, tokenBody, phase, tokenVars, readers, limiter, netSends, issued,
                   attempt, sends, acquired, log, delivered, ret, header, grant,
                   builderVars, loopVars>>

\* ------------------------------------------------------------------ token
\* Token::update: the stored token is replaced as a whole by the response.
update(tok) ==
    /\ access' = <<"Bearer", tok.access_token>>
    /\ refresh' = tok.refresh_token

\* The refresh loop notes the lifetime the response reports and sleeps until
\* shortly before it is over.
Acquired(tok) ==
    /\ expire' = tok.expires_in
    /\ life_left' = tok.expires_in
    /\ sleep_left' = SleepFor(tok.expires_in)

\* build handing out a client whatever the first request_token returned.
BuildFinish_lenient ==
    /\ phase = "building"
    /\ pc[TOK] = "done"
    /\ IF outcome[TOK].tag = "Value"
       THEN /\ readers = 0
            /\ update(ParseToken(ret[TOK].resp.body, issued))
            /\ Acquired(ParseToken(ret[TOK].resp.body, issued))
       ELSE UNCHANGED <<tokenVars, life_left, sleep_left, expire>>
    /\ phase' = "ready"
    /\ loopPc' = "sleeping"
    /\ token_loop_tx' = "Some"
    /\ pc' = [pc EXCEPT ![TOK] = "idle"]
    /\ UNCHANGED <<config, transport, chunked, writer, signals, tokenBody, readers, limiter, netSends, issued,
                   attempt, sends, acquired, log, delivered, ret, outcome, header, grant,
                   builderVars, renewals, failures>>

\* OsuBuilder::build, after the first request_token has returned: the token
\* is stored, the refresh loop spawned and the client returned with the
\* sender of the cancellation channel, or construction fails.
BuildFinish ==
    /\ phase = "building"
    /\ pc[TOK] = "done"
    /\ IF outcome[TOK].tag = "Value"
       THEN /\ readers = 0
            /\ update(ParseToken(ret[TOK].resp.body, issued))
            /\ Acquired(ParseToken(ret[TOK].resp.body, issued))
            /\ phase' = "ready"
            /\ loopPc' = "sleeping"
            /\ token_loop_tx' = "Some"
       ELSE /\ phase' = "failed"
            /\ UNCHANGED <<tokenVars, loopPc, life_left, sleep_left, expire, token_loop_tx>>
    /\ pc' = [pc EXCEPT ![TOK] = "idle"]
    /\ UNCHANGED <<config, transport, chunked, writer, signals, tokenBody, readers, limiter, netSends, issued,
                   attempt, sends, acquired, log, delivered, ret, outcome, header, grant,
                   builderVars, renewals, failures>>

\* Refresh loop: the sleep is over and a renewal begins with a new run of
\* request_token.
Renew ==
    /\ loopPc = "sleeping"
    /\ renewals' = renewals + 1
    /\ loopPc' = "renewing"
    /\ pc' = [pc EXCEPT ![TOK] = "body"]
    /\ attempt' = [attempt EXCEPT ![TOK] = 0]
    /\ sends' = [sends EXCEPT ![TOK] = 0]
    /\ acquired' = [acquired EXCEPT ![TOK] = 0]
    /\ log' = [log EXCEPT ![TOK] = <<>>]
    /\ delivered' = [delivered EXCEPT ![TOK] = NoResp]
    /\ ret' = [ret EXCEPT ![TOK] = NoRet]
    /\ outcome' = [outcome EXCEPT ![TOK] = NoOutcome]
    /\ grant' = [grant EXCEPT ![TOK] = None]
    /\ tokenBody' = NoBody
    /\ req' = [req EXCEPT ![TOK] = NoRequest]
    /\ wire' = [wire EXCEPT ![TOK] = <<>>]
    /\ clone' = [clone EXCEPT ![TOK] = NoRequest]
    /\ chunked' = [chunked EXCEPT ![TOK] = None]
    /\ UNCHANGED <<config, writer, teardown, phase, tokenVars, readers, limiter,
                   netSends, issued, header, builderVars,
                   failures, life_left, sleep_left, expire>>

\* Refresh loop: the sleep until shortly before expiry is over, a renewal begins.
LoopRenew ==
    /\ renewals < MaxRenewals
    /\ Renew

\* A refresh loop that ends when a renewal fails.
LoopFinish_give_up ==
    /\ loopPc = "renewing"
    /\ pc[TOK] = "done"
    /\ IF outcome[TOK].tag = "Value"
       THEN /\ readers = 0
            /\ update(ParseToken(ret[TOK].resp.body, issued))
            /\ Acquired(ParseToken(ret[TOK].resp.body, issued))
            /\ failures' = 0
            /\ loopPc' = "sleeping"
       ELSE /\ failures' = failures + 1
            /\ sleep_left' = SleepFor(expire)
            /\ loopPc' = "stopped"
            /\ UNCHANGED <<tokenVars, life_left, expire>>
    /\ pc' = [pc EXCEPT ![TOK] = "idle"]
    /\ writer' = "none"
    /\ UNCHANGED <<config, transport, chunked, teardown, tokenBody, phase, readers, limiter, netSends, issued,
                   attempt, sends, acquired, log, delivered, ret, outcome, header, grant,
                   builderVars, renewals>>

\* Refresh loop: the renewal has returned; a new token replaces the stored
\* one under the write guard, a failure is logged and the loop sleeps again
\* for the same time.
LoopFinish ==
    /\ loopPc = "renewing"
    /\ pc[TOK] = "done"
    /\ IF outcome[TOK].tag = "Value"
       THEN /\ readers = 0
            /\ update(ParseToken(ret[TOK].resp.body, issued))
            /\ Acquired(ParseToken(ret[TOK].resp.body, issued))
            /\ failures' = 0
       ELSE /\ failures' = failures + 1
            /\ sleep_left' = SleepFor(expire)
            /\ UNCHANGED <<tokenVars, life_left, expire>>
    /\ loopPc' = "sleeping"
    /\ pc' = [pc EXCEPT ![TOK] = "idle"]
    /\ writer' = "none"
    /\ UNCHANGED <<config, transport, chunked, teardown, tokenBody, phase, readers, limiter, netSends, issued,
                   attempt, sends, acquired, log, delivered, ret, outcome, header, grant,
                   builderVars, renewals>>

\* Refresh loop: the write of the new token finds read guards held and
\* queues behind them; the lock lets no later reader pass a queued writer.
WriterQueue ==
    /\ loopPc = "renewing"
    /\ pc[TOK] = "done"
    /\ outcome[TOK].tag = "Value"
    /\ readers > 0
    /\ writer = "none"
    /\ writer' = "waiting"
    /\ UNCHANGED <<config, transport, chunked, teardown, tokenBody, phase, tokenVars, readers, limiter,
                   netSends, issued, callVars, builderVars, loopVars>>

\* The stored token expires while its renewal has not completed.
Expire ==
    /\ loopPc = "renewing"
    /\ access # <<>>
    /\ readers = 0
    /\ access' = <<>>
    /\ UNCHANGED <<config, transport, chunked, writer, teardown, tokenBody, phase, refresh, readers, limiter, netSends,
                   issued, callVars, builderVars, loopVars>>

\* Drop that takes the sender and lets it go without sending.
Drop_forget ==
    /\ phase = "ready"
    /\ \A b \in Builders : fut[b] = "absent" \/ pc[b] = "done"
    /\ phase' = "dropped"
    /\ token_loop_tx' = "None"
    /\ UNCHANGED <<config, transport, chunked, writer, signals, tokenBody, tokenVars, readers, limiter, netSends, issued,
                   callVars, builderVars, loopVars>>

\* Drop for Osu: the sender is taken out of the client and one message is
\* sent on it; the result of the send is ignored.  Builders borrow the
\* client, so none is unfinished when it is dropped.
Drop ==
    /\ phase = "ready"
    /\ \A b \in Builders : fut[b] = "absent" \/ pc[b] = "done"
    /\ phase' = "dropped"
    /\ IF token_loop_tx = "Some"
       THEN /\ token_loop_tx' = "None"
            /\ signals' = signals + 1
       ELSE UNCHANGED <<token_loop_tx, signals>>
    /\ UNCHANGED <<config, transport, chunked, writer, tokenBody, tokenVars, readers, limiter, netSends, issued,
                   callVars, builderVars, loopVars>>

\* Refresh loop: the cancellation message arrives while the loop sleeps.
LoopCancel ==
    /\ loopPc = "sleeping"
    /\ signals > 0
    /\ loopPc' = "stopped"
    /\ UNCHANGED <<config, transport, chunked, writer, teardown, tokenBody, phase, tokenVars, readers, limiter, netSends,
                   issued, callVars, builderVars, renewals, failures, life_left,
                   sleep_left, expire>>

\* Refresh loop: the timer of the sleep has fired.
SleepOver == loopPc = "sleeping" /\ sleep_left = 0

\* ------------------------------------------------------------------ limiter
\* One refill interval passes: the bucket is refilled up to its capacity,
\* and the calls that found it empty have waited through the interval.
Refill(limit) ==
    /\ now < limit
    /\ now' = now + 1
    /\ bucket' = Min(Capacity, bucket + RefillRate)
    /\ waited' = [c \in Calls |->
                      IF pc[c] = "acquire" /\ bucket = 0 THEN waited[c] + 1 ELSE waited[c]]
    /\ UNCHANGED <<config, transport, chunked, writer, teardown, tokenBody, phase, tokenVars, readers, granted, netSends,
                   issued, callVars, builderVars, loopPc, renewals, failures, expire>>

\* Time passes for the engine; the clock of the refresh loop is left out.
Tick ==
    /\ Refill(MaxTime)
    /\ UNCHANGED <<life_left, sleep_left>>

\* Time passes for the refresh loop as well: its timers run down, and time
\* does not pass a sleep that is over.
LoopTick ==
    /\ ~SleepOver
    /\ Refill(MaxLoopTime)
    /\ life_left' = IF life_left > 0 THEN life_left - 1 ELSE 0
    /\ sleep_left' = IF loopPc = "sleeping" /\ sleep_left > 0 THEN sleep_left - 1 ELSE sleep_left

\* Refresh loop: woken by its timer, it begins a renewal.
LoopWake == SleepOver /\ Renew

\* The stored token expires when its reported lifetime has passed.
LoopExpire == life_left = 0 /\ Expire

\* ------------------------------------------------------------------ system
\* The steps of an engine call and of client construction, and the clock.
EngineStep ==
    \/ \E b \in Builders : RawReadToken(b)
    \/ TokenBody
    \/ \E c \in Calls : AcquireOne(c)
    \/ \E c \in Calls : Send(c)
    \/ \E c \in Calls : \E r \in EngineResponses(c) : Complete(c, r)
    \/ \E c \in Calls : Fail(c)
    \/ \E c \in Calls : Timeout(c)
    \/ \E c \in Calls, readOk \in BOOLEAN : HandleStatus(c, readOk)
    \/ BuildFinish
    \/ Tick

\* The steps of the refresh loop.
LoopStep ==
    \/ LoopRenew
    \/ WriterQueue
    \/ LoopFinish
    \/ Expire

\* Concurrent requests beside the refresh loop: every builder is created and
\* awaited; a poll after the first changes nothing but the builder's poll
\* count (see SpecCall).
Next ==
    \/ \E b \in Builders : NewBuilder(b)
    \/ \E b \in Builders : fut[b] = "None" /\ Poll(b)
    \/ EngineStep
    \/ LoopStep

Spec == Init /\ [][Next]_vars

\* One request from construction to its result: the client is built, one
\* builder is created, configured and polled any number of times, and its
\* call runs through the engine.
NextCall ==
    \/ NewBuilder(1)
    \/ \E id \in SpotlightIds : Spotlight(1, id)
    \/ Poll(1)
    \/ EngineStep

SpecCall == Init /\ [][NextCall]_vars

\* One request, awaited as it was created, under the runtime's scheduling:
\* a task that can take a step takes one, the clock advances, and an attempt
\* on the wire completes, fails or times out.
NextRun ==
    \/ NewBuilder(1)
    \/ Poll(1)
    \/ EngineStep

SpecCallFair == Init /\ [][NextRun]_vars /\ WF_vars(NextRun)

\* Response handling alone: one API call whose send_request has returned a
\* response of any status and body, classified by request_raw.
InitClassify ==
    /\ retries = 0
    /\ auth_kind = "Client"
    /\ phase = "ready"
    /\ access = <<"Bearer", 1>>
    /\ refresh = <<>>
    /\ readers = 0
    /\ bucket = 0
    /\ now = 1
    /\ granted = 2
    /\ netSends = 2
    /\ issued = 1
    /\ pc = [c \in Calls |-> IF c = 1 THEN "status" ELSE "idle"]
    /\ attempt = [c \in Calls |-> 0]
    /\ sends = [c \in Calls |-> IF c \in {TOK, 1} THEN 1 ELSE 0]
    /\ acquired = [c \in Calls |-> IF c \in {TOK, 1} THEN 1 ELSE 0]
    /\ log = [c \in Calls |-> IF c \in {TOK, 1} THEN <<"ok">> ELSE <<>>]
    /\ \E s \in Statuses, b \in Bodies :
          /\ delivered = [c \in Calls |->
                 IF c = 1 THEN [status |-> s, body |-> b]
                 ELSE IF c = TOK THEN [status |-> OK, body |-> <<"{", "A", "}">>]
                 ELSE NoResp]
          /\ ret = [c \in Calls |->
                 IF c = 1 THEN [tag |-> "Ok", resp |-> [status |-> s, body |-> b]]
                 ELSE IF c = TOK
                      THEN [tag |-> "Ok", resp |-> [status |-> OK, body |-> <<"{", "A", "}">>]]
                 ELSE NoRet]
    /\ outcome = [c \in Calls |->
           IF c = TOK THEN Outcome("Value", 0, <<>>, "TokenResponse") ELSE NoOutcome]
    /\ header = [c \in Calls |-> IF c = 1 THEN <<"Bearer", 1>> ELSE <<>>]
    /\ grant = [c \in Calls |-> IF c = TOK THEN "client_credentials" ELSE None]
    /\ fut = [b \in Builders |-> IF b = 1 THEN "Some" ELSE "absent"]
    /\ spotlight = [b \in Builders |-> <<>>]
    /\ query = [b \in Builders |-> <<>>]
    /\ kind = [b \in Builders |-> IF b = 1 THEN "chart" ELSE None]
    /\ mode = [b \in Builders |-> IF b = 1 THEN "OSU" ELSE None]
    /\ page = [b \in Builders |-> <<>>]
    /\ country = [b \in Builders |-> <<>>]
    /\ variant = [b \in Builders |-> <<>>]
    /\ given = [b \in Builders |-> NoGiven]
    /\ started = [b \in Builders |-> IF b = 1 THEN 1 ELSE 0]
    /\ polls = [b \in Builders |-> IF b = 1 THEN 1 ELSE 0]
    /\ loopPc = "sleeping"
    /\ renewals = 0
    /\ failures = 0
    /\ life_left = ExpiresIn + 1
    /\ sleep_left = SleepFor(ExpiresIn + 1)
    /\ expire = ExpiresIn + 1
    /\ waited = [c \in Calls |-> 0]
    /\ tokenBody = Body("Client", <<>>)
    /\ token_loop_tx = "Some"
    /\ signals = 0
    /\ req = [c \in Calls |-> IF c = 1 THEN ApiRequest(<<>>, <<"Bearer", 1>>) ELSE NoRequest]
    /\ wire = [c \in Calls |-> IF c = 1 THEN <<ApiRequest(<<>>, <<"Bearer", 1>>)>> ELSE <<>>]
    /\ clone = [c \in Calls |-> IF c = 1 THEN ApiRequest(<<>>, <<"Bearer", 1>>) ELSE NoRequest]
    /\ chunked = [c \in Calls |-> None]
    /\ writer = "none"

NextClassify == \E readOk \in BOOLEAN : RequestRaw(1, readOk)

SpecClassify == InitClassify /\ [][NextClassify]_vars

\* Response handling of a typed request: the same call, classified by
\* OsuRef::request, which goes on to parse_bytes.
NextTyped == \E readOk \in BOOLEAN : HandleStatus(1, readOk)

SpecTyped == InitClassify /\ [][NextTyped]_vars

\* A ready client with a token and a unit in the rate limiter, and no builder.
InitBuilder ==
    /\ retries = 0
    /\ auth_kind = "Client"
    /\ phase = "ready"
    /\ access = <<"Bearer", 1>>
    /\ refresh = <<>>
    /\ readers = 0
    /\ bucket = Capacity
    /\ now = 1
    /\ granted = 1
    /\ netSends = 1
    /\ issued = 1
    /\ pc = [c \in Calls |-> "idle"]
    /\ attempt = [c \in Calls |-> 0]
    /\ sends = [c \in Calls |-> IF c = TOK THEN 1 ELSE 0]
    /\ acquired = [c \in Calls |-> IF c = TOK THEN 1 ELSE 0]
    /\ log = [c \in Calls |-> IF c = TOK THEN <<"ok">> ELSE <<>>]
    /\ delivered = [c \in Calls |->
           IF c = TOK THEN [status |-> OK, body |-> <<"{", "A", "}">>] ELSE NoResp]
    /\ ret = [c \in Calls |->
           IF c = TOK THEN [tag |-> "Ok", resp |-> [status |-> OK, body |-> <<"{", "A", "}">>]]
           ELSE NoRet]
    /\ outcome = [c \in Calls |->
           IF c = TOK THEN Outcome("Value", 0, <<>>, "TokenResponse") ELSE NoOutcome]
    /\ header = [c \in Calls |-> <<>>]
    /\ grant = [c \in Calls |-> IF c = TOK THEN "client_credentials" ELSE None]
    /\ fut = [b \in Builders |-> "absent"]
    /\ spotlight = [b \in Builders |-> <<>>]
    /\ query = [b \in Builders |-> <<>>]
    /\ kind = [b \in Builders |-> None]
    /\ mode = [b \in Builders |-> None]
    /\ page = [b \in Builders |-> <<>>]
    /\ country = [b \in Builders |-> <<>>]
    /\ variant = [b \in Builders |-> <<>>]
    /\ given = [b \in Builders |-> NoGiven]
    /\ started = [b \in Builders |-> 0]
    /\ polls = [b \in Builders |-> 0]
    /\ loopPc = "sleeping"
    /\ renewals = 0
    /\ failures = 0
    /\ life_left = ExpiresIn + 1
    /\ sleep_left = SleepFor(ExpiresIn + 1)
    /\ expire = ExpiresIn + 1
    /\ waited = [c \in Calls |-> 0]
    /\ tokenBody = Body("Client", <<>>)
    /\ token_loop_tx = "Some"
    /\ signals = 0
    /\ req = [c \in Calls |-> IF c = TOK THEN TokenRequest(Body("Client", <<>>)) ELSE NoRequest]
    /\ wire = [c \in Calls |-> IF c = TOK THEN <<TokenRequest(Body("Client", <<>>))>> ELSE <<>>]
    /\ clone = [c \in Calls |->
           IF c = TOK THEN [TokenRequest(Body("Client", <<>>)) EXCEPT !.body = <<>>]
           ELSE NoRequest]
    /\ chunked = [c \in Calls |-> IF c = TOK THEN "ok" ELSE None]
    /\ writer = "none"

\* One ranking builder of any kind and mode: it is created, configured by its
\* methods in any order and any number of times, awaited, and its request is
\* sent.
NextBuilder ==
    \/ \E k \in Kinds, m \in Modes : NewRanking(1, k, m)
    \/ \E id \in SpotlightIds : Spotlight(1, id)
    \/ \E n \in Pages : Page(1, n)
    \/ \E code \in Countries : Country(1, code)
    \/ variant_4k(1)
    \/ variant_7k(1)
    \/ Poll(1)
    \/ RawReadToken(1)
    \/ AcquireOne(1)
    \/ Send(1)

SpecBuilder == InitBuilder /\ [][NextBuilder]_vars

\* The life of the token: construction, the refresh loop on its clock with
\* every renewal it makes, and the drop of the client.  The runtime goes on
\* scheduling whatever task can take a step.
NextLoop ==
    \/ TokenBody
    \/ AcquireOne(TOK)
    \/ Send(TOK)
    \/ \E r \in EngineResponses(TOK) : Complete(TOK, r)
    \/ Fail(TOK)
    \/ Timeout(TOK)
    \/ \E readOk \in BOOLEAN : HandleStatus(TOK, readOk)
    \/ BuildFinish
    \/ LoopTick
    \/ LoopWake
    \/ LoopFinish
    \/ LoopExpire
    \/ Drop
    \/ LoopCancel

SpecLoop == Init /\ [][NextLoop]_vars /\ WF_vars(NextLoop)

\* ------------------------------------------------------------------ claims
AllTimeouts(l) == \A i \in 1..Len(l) : l[i] = "timeout"
\* The call has returned to its caller (the token call is idle once its
\* caller has taken the result).
Ended(c) == pc[c] = "done" \/ (c = TOK /\ pc[c] = "idle")
Returned(c) == (pc[c] = "status" \/ Ended(c)) /\ ret[c].tag # None

\* C1: when the transport times out on exactly the first max_retries attempts
\* of a call and the next attempt completes, send_request returns the
\* response of that attempt and max_retries + 1 network sends were made.
C1_RetryThenSuccess ==
    \A c \in Calls :
        ( /\ Len(log[c]) = retries + 1
          /\ AllTimeouts(SubSeq(log[c], 1, retries))
          /\ log[c][retries + 1] = "ok" )
        => /\ Returned(c)
           /\ ret[c] = [tag |-> "Ok", resp |-> delivered[c]]
           /\ sends[c] = retries + 1

C1_Witness ==
    \E c \in Builders :
        /\ retries >= 1
        /\ log[c] = [i \in 1..(retries + 1) |-> IF i <= retries THEN "timeout" ELSE "ok"]
        /\ pc[c] = "done"
        /\ outcome[c].tag = "Value"

\* C2: when every attempt of a call times out, the call ends with
\* RequestTimeout after exactly max_retries + 1 network sends: it never ends
\* with fewer, never sends more, and RequestTimeout arises in no other way.
C2_RetryExhaustion ==
    \A c \in Calls :
        /\ sends[c] <= retries + 1
        /\ (Ended(c) /\ Len(log[c]) >= 1 /\ AllTimeouts(log[c]))
           => /\ ret[c].tag = "RequestTimeout"
              /\ outcome[c].tag = "RequestTimeout"
              /\ sends[c] = retries + 1
        /\ (Len(log[c]) = retries + 1 /\ AllTimeouts(log[c])) => Ended(c)
        /\ outcome[c].tag = "RequestTimeout"
           => /\ sends[c] = retries + 1
              /\ Len(log[c]) = retries + 1
              /\ AllTimeouts(log[c])

C2_Witness ==
    /\ retries >= 1
    /\ \E c \in Builders :
           /\ outcome[c].tag = "RequestTimeout"
           /\ log[c] = [i \in 1..(retries + 1) |-> "timeout"]
           /\ sends[c] = retries + 1
           /\ attempt[c] = retries

\* C3: a transport failure that is no timeout, on the first attempt or after
\* earlier timeouts, ends the call at once with the Request error whatever
\* the attempt counter: no attempt follows it.
C3_FailureNotRetried ==
    \A c \in Calls :
        (\E i \in 1..Len(log[c]) : log[c][i] = "error")
        => /\ log[c][Len(log[c])] = "error"
           /\ AllTimeouts(SubSeq(log[c], 1, Len(log[c]) - 1))
           /\ Ended(c)
           /\ ret[c].tag = "Request"
           /\ outcome[c].tag = "Request"
           /\ sends[c] = Len(log[c])

C3_Witness ==
    /\ log[TOK] = <<"ok">>
    /\ \E c \in Builders :
           /\ log[c] = <<"timeout", "error">>
           /\ attempt[c] = 1
           /\ attempt[c] < retries
           /\ outcome[c].tag = "Request"

\* C4: however often a builder is polled before it completes, start() runs
\* at most once: one request is built and handed to the engine, the stored
\* computation is the one every later poll drives, and it acquires one unit.
C4_StartOnce ==
    \A b \in Builders :
        /\ started[b] = (IF fut[b] = "Some" THEN 1 ELSE 0)
        /\ (fut[b] = "Some") = (pc[b] # "idle")
        /\ (fut[b] = "Some") = (polls[b] >= 1)
        /\ acquired[b] <= 1
        /\ sends[b] <= retries + 1

C4_Witness ==
    \E b \in Builders :
        /\ polls[b] >= 2
        /\ started[b] = 1
        /\ sends[b] >= 1
        /\ pc[b] = "inflight"

\* C5: creating a builder and configuring it acquires no unit, reads no
\* token and sends nothing; a builder that was never polled has no
\* computation and has sent no request.
C5_BuilderIsLazy ==
    \A b \in Builders :
        polls[b] = 0
        => /\ pc[b] = "idle"
           /\ started[b] = 0
           /\ acquired[b] = 0
           /\ sends[b] = 0
           /\ header[b] = <<>>
           /\ outcome[b] = NoOutcome

C5_Witness ==
    \E b \in Builders :
        /\ fut[b] = "None"
        /\ spotlight[b] # <<>>
        /\ polls[b] = 0
        /\ netSends = 1
        /\ granted = 1

\* C6: the classification of a response whose body was read depends on
\* status and body alone: 200 is the success with the body, 404 is NotFound
\* whatever the body, 503 is ServiceUnavailable with the body text, every
\* other status is ApiError (status, body text, payload) when the body parses
\* as the error payload and UnparseableErrorBody with the body text otherwise.
C6_Classification ==
    (pc[1] = "done" /\ outcome[1].tag # "ChunkingResponse")
    => LET r == ret[1].resp
           o == outcome[1]
           text == from_utf8_lossy(r.body)
           valid == \A i \in 1..Len(r.body) : r.body[i] # "FF"
       IN  /\ valid => text = r.body
           /\ r.status = OK => (o.tag = "Ok" /\ o.body = r.body)
           /\ r.status = NOT_FOUND => o.tag = "NotFound"
           /\ r.status = SERVICE_UNAVAILABLE
              => (o.tag = "ServiceUnavailable" /\ o.body = text)
           /\ (r.status \notin {OK, NOT_FOUND, SERVICE_UNAVAILABLE} /\ IsJsonObject(r.body))
              => /\ o.tag = "Response"
                 /\ o.status = r.status
                 /\ o.body = text
                 /\ o.payload = ParseApiError(r.body).error
           /\ (r.status \notin {OK, NOT_FOUND, SERVICE_UNAVAILABLE} /\ ~IsJsonObject(r.body))
              => (o.tag = "Parsing" /\ o.body = text)
           /\ (r.status = BAD_REQUEST /\ r.body = <<"{", "E", "}">>)
              => o = Outcome("Response", BAD_REQUEST, <<"{", "E", "}">>, "invalid_scope")
           /\ (r.status = BAD_REQUEST /\ r.body = <<"n">>)
              => (o.tag = "Parsing" /\ o.body = <<"n">>)

C6_Witness ==
    /\ pc[1] = "done"
    /\ ret[1].resp = [status |-> CREATED, body |-> <<"{", "E", "}">>]
    /\ outcome[1].tag = "Response"

\* C7: from successful construction up to the refresh loop's first renewal
\* the stored access token is present, every API request that reads it gets
\* a token, and no request ends with NoToken, whatever the interleaving.
C7_TokenAfterConstruction ==
    /\ (phase = "ready" /\ renewals = 0) => access # <<>>
    /\ \A b \in Builders :
           /\ outcome[b].tag = "NoToken" => renewals >= 1
           /\ (renewals = 0 /\ pc[b] \notin {"idle", "raw"}) => header[b] # <<>>

C7_Witness ==
    /\ renewals = 0
    /\ \A b \in {1, 2} : pc[b] = "inflight" /\ header[b] = access
    /\ readers = 2

\* C8: every call that reaches the network, token request or API request,
\* has acquired exactly one unit of the rate limiter, and had it before its
\* first network send; no call acquires a second unit.
C8_OneUnitPerCall ==
    \A c \in Calls :
        /\ acquired[c] <= 1
        /\ sends[c] >= 1 => acquired[c] = 1
        /\ pc[c] \in {"loop", "inflight", "status"} => acquired[c] = 1

C8_Witness ==
    /\ sends[TOK] >= 1
    /\ acquired[TOK] = 1
    /\ \E b \in Builders : sends[b] = 2 /\ acquired[b] = 1

\* C9: the network send attempts made so far, retries included, never
\* exceed the units the rate limiter has granted so far.
C9_SendsWithinGranted == netSends <= granted

\* C10: with capacity C and refill rate R per tick, at every time t at most
\* C + R * t calls have passed the gate of the rate limiter.
C10_ThroughputBound == granted <= Capacity + RefillRate * now

C10_Witness ==
    /\ now >= 1
    /\ granted = Capacity + RefillRate * now
    /\ bucket = 0
    /\ \E b \in Builders : pc[b] = "acquire"

\* C11: the wait for a unit of the rate limiter is covered by the timeout of
\* the send path: no call is still waiting in acquire_one after it has
\* waited for longer than the configured timeout.
C11_WaitWithinTimeout ==
    \A c \in Calls : pc[c] = "acquire" => waited[c] <= TimeoutTicks

\* C12: after every successful acquisition of a token that reports the
\* lifetime T the refresh loop begins its next renewal before T has passed:
\* it is never still asleep when the lifetime of that token is over.
C12_RenewalBeforeExpiry ==
    (loopPc = "sleeping" /\ failures = 0)
    => /\ life_left > 0
       /\ life_left = expire - (SleepFor(expire) - sleep_left)

C12_Witness ==
    /\ renewals = 2
    /\ loopPc = "renewing"
    /\ pc[TOK] = "body"
    /\ failures = 0
    /\ sleep_left = 0
    /\ life_left = Margin
    /\ now = 2

\* C13: construction makes one token request and returns when it has
\* ended.  Until then there is no client; when the request failed there is
\* never one: no refresh loop, no stored token, no builder and no send beside
\* those of the token request; when it succeeded the client exists with the
\* access token of the response stored and the refresh loop spawned.
C13_Construction ==
    /\ phase = "building"
       => /\ loopPc = "off"
          /\ token_loop_tx = "None"
          /\ access = <<>>
          /\ \A b \in Builders : fut[b] = "absent"
    /\ phase = "failed"
       => /\ outcome[TOK].tag \notin {None, "Value"}
          /\ pc[TOK] = "idle"
          /\ loopPc = "off"
          /\ token_loop_tx = "None"
          /\ access = <<>>
          /\ granted <= 1
          /\ netSends = sends[TOK]
          /\ \A b \in Builders : fut[b] = "absent" /\ pc[b] = "idle" /\ sends[b] = 0
    /\ (phase = "ready" /\ renewals = 0)
       => /\ outcome[TOK].tag = "Value"
          /\ pc[TOK] = "idle"
          /\ acquired[TOK] = 1
          /\ access = <<"Bearer", 1>>
          /\ issued = 1
          /\ loopPc = "sleeping"
          /\ token_loop_tx = "Some"

C13_Witness ==
    /\ phase = "failed"
    /\ ret[TOK].resp.status = TOO_MANY_REQUESTS
    /\ outcome[TOK].tag = "Response"
    /\ now = MaxTime
    /\ bucket = Capacity

\* C14: the body of every token request follows from the authorization kind
\* and the stored refresh token: a client sends client_credentials with its
\* scope; a user sends refresh_token with the stored refresh token when one
\* is stored, and authorization_code with code and redirect URI exactly
\* when none is stored.
C14_GrantType ==
    pc[TOK] \in {"acquire", "loop", "inflight", "status", "done"}
    => /\ grant[TOK] = tokenBody.grant_type
       /\ auth_kind = "Client"
          => /\ tokenBody.grant_type = "client_credentials"
             /\ tokenBody.scope = <<"scope">>
             /\ tokenBody.refresh_token = <<>> /\ tokenBody.code = <<>>
       /\ (auth_kind = "User" /\ refresh # <<>>)
          => /\ tokenBody.grant_type = "refresh_token"
             /\ tokenBody.refresh_token = refresh
             /\ tokenBody.code = <<>> /\ tokenBody.redirect_uri = <<>>
       /\ (auth_kind = "User" /\ refresh = <<>>)
          => /\ tokenBody.grant_type = "authorization_code"
             /\ tokenBody.code = <<"auth.code">>
             /\ tokenBody.redirect_uri = <<"auth.redirect_uri">>
             /\ tokenBody.refresh_token = <<>>
       /\ (tokenBody.grant_type = "authorization_code")
          = (auth_kind = "User" /\ refresh = <<>>)

C14_Witness ==
    /\ auth_kind = "User"
    /\ renewals = 2
    /\ pc[TOK] = "inflight"
    /\ refresh = <<2>>
    /\ tokenBody.grant_type = "refresh_token"
    /\ tokenBody.refresh_token = <<2>>

\* C15: for a user-authorization client, once the first exchange has
\* succeeded (the client exists), no token request uses the grant type
\* authorization_code.
C15_CodeUsedOnce ==
    ( /\ auth_kind = "User"
      /\ phase \in {"ready", "dropped"}
      /\ pc[TOK] \in {"acquire", "loop", "inflight", "status", "done"} )
    => grant[TOK] # "authorization_code"

\* C16 as claimed: every error a request ends with after the body of its
\* response was read carries the text of that body.
C16_ErrorsCarryBody ==
    (pc[1] = "done" /\ outcome[1].tag \notin {"Value", "ChunkingResponse"})
    => outcome[1].body = from_utf8_lossy(ret[1].resp.body)

\* C16 as amended: every error a request ends with after the body of its
\* response was read carries the text of that body, except NotFound, the
\* error of status 404, which carries nothing.
C16_ErrorsCarryBodyButNotFound ==
    (pc[1] = "done" /\ outcome[1].tag \notin {"Value", "ChunkingResponse"})
    => IF ret[1].resp.status = NOT_FOUND
       THEN outcome[1] = Outcome("NotFound", 0, <<>>, None)
       ELSE /\ outcome[1].tag \in {"Parsing", "ServiceUnavailable", "Response"}
            /\ outcome[1].body = from_utf8_lossy(ret[1].resp.body)

C16_Witness ==
    /\ pc[1] = "done"
    /\ ret[1].resp = [status |-> OK, body |-> <<"{", "E", "FF">>]
    /\ outcome[1].tag = "Parsing"
    /\ outcome[1].body = <<"{", "E", "U+FFFD">>

\* C17: the error of a 200 response whose body does not parse into the
\* target type differs from the error of every response of another status
\* whose body does not parse as an error payload.
C17_DistinctParseErrors ==
    (pc[1] = "done" /\ ret[1].resp.status = OK /\ outcome[1].tag = "Parsing")
    => \A s \in Statuses \ {OK}, b \in Bodies :
           ~ParseApiError(b).ok /\ s \notin {NOT_FOUND, SERVICE_UNAVAILABLE}
           => handle_status(s, TRUE, b) # outcome[1]

\* C18: a call that received a 429 response made no send after it: the
\* response is the last entry of its log and is what send_request returned,
\* whatever the retry count; and it ends with the Response error when the
\* body parses as an error payload and with the Parsing error otherwise.
C18_NoRetryOn429 ==
    \A c \in Calls :
           delivered[c].status = TOO_MANY_REQUESTS
           => /\ log[c][Len(log[c])] = "ok"
              /\ sends[c] = Len(log[c])
              /\ Returned(c)
              /\ ret[c] = [tag |-> "Ok", resp |-> delivered[c]]
              /\ (Ended(c) /\ outcome[c].tag # "ChunkingResponse")
                 => LET b == delivered[c].body
                    IN  outcome[c] =
                            IF IsJsonObject(b)
                            THEN Outcome("Response", TOO_MANY_REQUESTS, from_utf8_lossy(b),
                                         ParseApiError(b).error)
                            ELSE Outcome("Parsing", 0, from_utf8_lossy(b),
                                         "serde_json::Error")

C18_Witness ==
    \E c \in Builders :
        /\ retries = MaxRetries
        /\ log[c] = <<"timeout", "ok">>
        /\ attempt[c] < retries
        /\ delivered[c].status = TOO_MANY_REQUESTS
        /\ pc[c] = "done"
        /\ outcome[c].tag = "Parsing"
        /\ outcome[c].body = <<"n">>
        /\ sends[c] = 2

\* C19: a renewal that fails does not end the refresh loop: as long as the
\* client has not been dropped the loop is asleep on its timer, set to the
\* same sleep as before, or renewing, after any number of failures in a row;
\* and a renewal that succeeds stores the token of its response.
C19_LoopSurvivesFailure ==
    [][ /\ (failures' >= 1 /\ signals' = 0)
           => /\ loopPc' \in {"sleeping", "renewing"}
              /\ loopPc' = "sleeping" => sleep_left' <= SleepFor(expire')
        /\ (loopPc = "renewing" /\ loopPc' # "renewing" /\ outcome[TOK].tag # "Value")
           => /\ loopPc' = "sleeping"
              /\ failures' = failures + 1
              /\ sleep_left' = SleepFor(expire)
              /\ UNCHANGED <<access, refresh>>
        /\ (loopPc = "renewing" /\ loopPc' # "renewing" /\ outcome[TOK].tag = "Value")
           => /\ loopPc' = "sleeping"
              /\ failures' = 0
              /\ access' = <<"Bearer", issued>>
              /\ refresh' = ParseToken(ret[TOK].resp.body, issued).refresh_token
      ]_vars

C19_Witness ==
    /\ renewals = 3
    /\ loopPc = "sleeping"
    /\ failures = 0
    /\ outcome[TOK].tag = "Value"
    /\ issued = 2
    /\ access = <<"Bearer", 2>>
    /\ signals = 0

\* C20: dropping the client sends the cancellation message once, whatever
\* the refresh loop is doing, and never a second one; once the client is
\* dropped the loop eventually stops, and a stopped loop stays stopped,
\* begins no token request and replaces no token.
C20_CancelOnDrop ==
    /\ [](signals <= 1)
    /\ [][ (phase = "ready" /\ phase' = "dropped")
           => /\ signals' = signals + 1
              /\ token_loop_tx' = "None"
              /\ loopPc' = loopPc ]_vars
    /\ [][ loopPc = "stopped"
           => /\ loopPc' = "stopped"
              /\ pc'[TOK] = pc[TOK]
              /\ sends'[TOK] = sends[TOK]
              /\ renewals' = renewals
              /\ UNCHANGED <<access, refresh>> ]_vars
    /\ (phase = "dropped") ~> (loopPc = "stopped")

C20_Witness ==
    /\ phase = "dropped"
    /\ signals = 1
    /\ token_loop_tx = "None"
    /\ loopPc = "stopped"
    /\ renewals = 2
    /\ pc[TOK] = "idle"
    /\ now < MaxLoopTime


\* C21: requests that read the token never block each other, whatever the
\* interleaving with a token replacement: no request waits to read the token
\* while another request holds its read guard.
C21_ReadersNeverBlock ==
    \A b \in Builders :
        (pc[b] = "raw" /\ readers > 0) => writer = "none"

\* C22: an API request that finds no access token ends at once with NoToken,
\* with no send, no unit of the rate limiter and no attempt; every request
\* that went past the token read carries a token, and the client stays ready.
C22_NoTokenEndsAtOnce ==
    \A b \in Builders :
        /\ outcome[b].tag = "NoToken" =>
               /\ pc[b] = "done"
               /\ sends[b] = 0 /\ wire[b] = <<>>
               /\ acquired[b] = 0
               /\ log[b] = <<>> /\ attempt[b] = 0
               /\ started[b] = 1
               /\ phase = "ready"
        /\ (pc[b] \in {"acquire", "loop", "inflight", "status"} \/ sends[b] > 0) =>
               /\ header[b] # <<>>
               /\ outcome[b].tag # "NoToken"

\* The first request found no token; the second, issued after the renewal
\* stored one, is on the wire with the stored token.
C22_Witness ==
    /\ outcome[1].tag = "NoToken"
    /\ access # <<>>
    /\ pc[2] = "inflight"
    /\ Len(wire[2]) = 1
    /\ wire[2][1].headers.authorization = access

\* C23: every attempt of one send_request call sends a clone with the method,
\* the URI, the headers and the body of the built request; a send, which
\* empties the body of the clone it hands over, leaves the built request as
\* it was, so a later attempt carries the same body as the first.
C23_AttemptsSendTheBuiltRequest ==
    /\ [](\A c \in Calls :
            /\ Len(wire[c]) = sends[c]
            /\ \A i \in 1..Len(wire[c]) : wire[c][i] = req[c]
            /\ sends[c] > 0 =>
                   /\ clone[c].method = req[c].method
                   /\ clone[c].uri = req[c].uri
                   /\ clone[c].headers = req[c].headers
                   /\ clone[c].body = <<>>
            /\ (c = TOK /\ sends[c] > 0) =>
                   /\ req[c].body = <<tokenBody>>
                   /\ req[c].headers.content_length = 1)
    /\ [][\A c \in Calls : sends'[c] = sends[c] + 1 => req'[c] = req[c]]_vars

\* The token request timed out once and was sent again: the second attempt
\* carries the body of the first, while the clone handed over is consumed.
C23_Witness ==
    /\ sends[TOK] = 2
    /\ log[TOK] = <<"timeout">>
    /\ wire[TOK][2].body = <<tokenBody>>
    /\ wire[TOK][2].body # <<>>
    /\ wire[TOK][2] = wire[TOK][1]
    /\ clone[TOK].body = <<>>

\* The API requests between their token read and the return of send_request.
Holding == {b \in Builders : pc[b] \in {"acquire", "loop", "inflight"}}

\* C28: an API request holds the read guard of the token from its token read
\* until send_request has returned, through the wait for the rate limiter and
\* every attempt: no replacement of the token takes effect meanwhile, and
\* every attempt of the request carries the token it read.
C28_GuardHeldAcrossSend ==
    /\ [](/\ readers = Cardinality(Holding)
          /\ \A b \in Holding :
                 /\ header[b] = access
                 /\ \A i \in 1..Len(wire[b]) : wire[b][i].headers.authorization = header[b])
    /\ [][Holding # {} => tokenVars' = tokenVars]_vars

\* A renewal has brought a new token while a request is at its second attempt:
\* the replacement waits, and both attempts carry the token the request read.
C28_Witness ==
    /\ pc[1] = "inflight"
    /\ sends[1] = 2
    /\ loopPc = "renewing"
    /\ pc[TOK] = "done"
    /\ outcome[TOK].tag = "Value"
    /\ writer = "waiting"
    /\ wire[1][1].headers.authorization = access
    /\ wire[1][2].headers.authorization = access

\* C29: the body of a response is read before its status is looked at: when
\* the read fails the request ends with the chunking error whatever the
\* status, and with none of the outcomes the status would decide.
C29_BodyReadBeforeStatus ==
    (pc[1] = "done" /\ chunked[1] = "error") =>
        /\ outcome[1] = Outcome("ChunkingResponse", 0, <<>>, None)
        /\ outcome[1].tag \notin {"Ok", "NotFound", "ServiceUnavailable", "Response", "Parsing"}

\* A 404 response whose body could not be read.
C29_Witness ==
    /\ pc[1] = "done"
    /\ ret[1].resp.status = NOT_FOUND
    /\ chunked[1] = "error"
    /\ outcome[1].tag = "ChunkingResponse"

\* C27: the ApiError and UnparseableErrorBody outcomes arise only for
\* responses whose status is not 2xx.
C27_ErrorsOnlyForNon2xx ==
    (pc[1] = "done" /\ outcome[1].tag \in {"Response", "Parsing"}) =>
        ~(ret[1].resp.status >= 200 /\ ret[1].resp.status < 300)

\* The call has been started and has not returned to its caller.
Running(c) == pc[c] \in {"body", "raw", "acquire", "loop", "inflight", "status"}

\* The rate limiter grants the call no unit any more.
Starved(c) == pc[c] = "acquire" /\ bucket = 0 /\ now = MaxTime

\* C30: every started request terminates with exactly one outcome, a value
\* or one error: unless the rate limiter never grants it a unit, it returns
\* after at most max_retries + 1 attempts, and its outcome never changes.
C30_RequestTerminates ==
    /\ \A c \in Calls : Running(c) ~> (Ended(c) \/ Starved(c))
    /\ [](\A c \in Calls :
            /\ sends[c] <= retries + 1
            /\ Ended(c) <=> outcome[c].tag # None)
    /\ [][\A c \in Calls : outcome[c].tag # None => outcome'[c] = outcome[c]]_vars

\* The request was sent max_retries + 1 times and returned a value, after
\* the token request had returned.
C30_Witness ==
    /\ retries = MaxRetries
    /\ pc[TOK] = "idle"
    /\ pc[1] = "done"
    /\ sends[1] = MaxRetries + 1
    /\ Len(log[1]) = MaxRetries + 1
    /\ outcome[1].tag = "Value"

\* The values the query q carries for the key, in the order of the query.
Values(q, key) ==
    LET hits == SelectSeq(q, LAMBDA p : p[1] = key)
    IN  [i \in 1..Len(hits) |-> hits[i][2]]

\* The query of the request the builder's call put on the wire.
Sent(b) == wire[b][1].uri.query

\* The builder's state apart from the one field a method sets.
Rest(b, field) ==
    <<IF field = "spotlight" THEN <<>> ELSE spotlight[b],
      IF field = "page" THEN <<>> ELSE page[b],
      IF field = "country" THEN <<>> ELSE country[b],
      IF field = "variant" THEN <<>> ELSE variant[b],
      kind[b], mode[b], fut[b], started[b], query[b], polls[b], pc[b], sends[b]>>

\* C24: spotlight, page and country each set exactly their field to the value
\* given and leave every other field and the not-started state as they are;
\* of several calls of one method the last value is the one sent.
C24_MethodSetsOneField ==
    /\ [](\A b \in Builders :
            /\ fut[b] = "None" =>
                   /\ spotlight[b] = given[b].spotlight
                   /\ page[b] = given[b].page
                   /\ country[b] = given[b].country
                   /\ started[b] = 0 /\ pc[b] = "idle"
            /\ sends[b] > 0 =>
                   /\ Values(Sent(b), "spotlight") = Str(given[b].spotlight)
                   /\ Values(Sent(b), "cursor[page]") = Str(given[b].page)
                   /\ Values(Sent(b), "country") = given[b].country)
    /\ [][\A b \in Builders :
            /\ given'[b].spotlight # given[b].spotlight =>
                   /\ spotlight'[b] = given'[b].spotlight
                   /\ Rest(b, "spotlight")' = Rest(b, "spotlight")
            /\ given'[b].page # given[b].page =>
                   /\ page'[b] = given'[b].page
                   /\ Rest(b, "page")' = Rest(b, "page")
            /\ given'[b].country # given[b].country =>
                   /\ country'[b] = given'[b].country
                   /\ Rest(b, "country")' = Rest(b, "country")]_vars

\* A performance builder was given the page 1 and then 2, and a country,
\* and its request is on the wire with the page 2 and the country.
C24_Witness ==
    /\ kind[1] = "performance"
    /\ given[1].page = <<2>>
    /\ given[1].country = <<<<"D", "E">>>>
    /\ sends[1] = 1
    /\ Sent(1) = <<<<"country", <<"D", "E">>>>, <<"cursor[page]", <<"2">>>>>>

\* C25: variant_4k and variant_7k set the variant of a performance builder
\* only when its mode is mania, where the last of the calls decides the
\* value sent; for every other mode the builder stays as it is and the
\* request carries no variant.
C25_VariantOnlyForMania ==
    /\ [](\A b \in Builders :
            /\ fut[b] \in {"None", "Some"} =>
                   variant[b] = IF mode[b] = "MNA" THEN given[b].variant ELSE <<>>
            /\ sends[b] > 0 =>
                   Values(Sent(b), "variant") =
                       IF mode[b] = "MNA" THEN given[b].variant ELSE <<>>)
    /\ [][\A b \in Builders :
            given'[b].variant # given[b].variant =>
                /\ given'[b].variant \in {<<<<"4", "k">>>>, <<<<"7", "k">>>>}
                /\ Rest(b, "variant")' = Rest(b, "variant")
                /\ mode[b] # "MNA" => variant'[b] = variant[b]]_vars

\* variant_7k was called on a builder for the mode taiko, with a country:
\* the request on the wire carries the country and no variant.
C25_Witness ==
    /\ kind[1] = "performance"
    /\ mode[1] = "TKO"
    /\ given[1].variant = <<<<"7", "k">>>>
    /\ variant[1] = <<>>
    /\ sends[1] = 1
    /\ Sent(1) = <<<<"country", <<"U", "S">>>>>>

\* The keys of the query q.
Keys(q) == {q[i][1] : i \in 1..Len(q)}

\* The keys of the parameters that were set on the builder; the country is
\* taken out of the builder by start, what was set is the one given.
SetKeys(b) ==
    {k \in {"spotlight", "country", "variant", "cursor[page]"} :
        \/ k = "spotlight" /\ spotlight[b] # <<>>
        \/ k = "country" /\ given[b].country # <<>>
        \/ k = "variant" /\ variant[b] # <<>>
        \/ k = "cursor[page]" /\ page[b] # <<>>}

\* C26: the query of the request a ranking builder produces has a key
\* exactly for each parameter that was set, once, and none for a parameter
\* that was not; with nothing set the query is empty.
C26_KeysOfSetParameters ==
    \A b \in Builders :
        /\ fut[b] = "Some" =>
               /\ Keys(query[b]) = SetKeys(b)
               /\ Len(query[b]) = Cardinality(SetKeys(b))
               /\ SetKeys(b) = {} => query[b] = <<>>
        /\ sends[b] > 0 => Sent(b) = query[b]

\* A mania performance builder with its three parameters set, on the wire.
C26_Witness ==
    /\ kind[1] = "performance"
    /\ sends[1] = 1
    /\ Sent(1) = <<<<"country", <<"U", "S">>>>, <<"variant", <<"4", "k">>>>,
                   <<"cursor[page]", <<"1">>>>>>

====
